---- MODULE Spec2Model ----
\* Model of prime.py: the primality test, the per-worker candidate sequence,
\* the worker time-slice loop, the shared queue, the aggregating main loop and
\* the KeyboardInterrupt handler.
EXTENDS Integers, Sequences, FiniteSets, TLC

\* ------------------------------------------------------------------ bounds
\* Largest pool size (multiprocessing.cpu_count()) explored.
MaxCores == 3
\* Workers stop pulling candidates once their cursor exceeds StartBase + MaxSpan.
MaxSpan == 7
\* Inputs of the stand-alone is_prime check: -NegInputs .. MaxInput.
NegInputs == 3
MaxInput == 10000
\* Stand-alone sequence check: single steps taken between two leaps, and the
\* largest growth value from which a cursor is still advanced.
MaxRun == 2
MaxGrowth == 2
\* Number of reports whose eventual folding is followed (no run within MaxSpan
\* sends more).
MaxFollowed == 3

\* -------------------------------------------------------- program constants
\* current_num = 100 + worker_id
StartBase == 100
\* growth = math.floor(current_num * 0.00000005): one unit per 20,000,000
GrowthUnit == 20000000

VARIABLES
    CORE_COUNT,        \* multiprocessing.cpu_count(), fixed at start
    current_num,       \* worker -> cursor
    count,             \* worker -> primes found in the running slice
    max_found,         \* worker -> last prime found in the running slice
    wpc,               \* worker -> "loop" | "slice" | "exited" | "terminated"
    queue,             \* multiprocessing.Queue: reports in flight
    stop_event,        \* multiprocessing.Event
    stats,             \* main's stats dict
    last_total_primes, \* main's velocity baseline
    mpc,               \* main: "drain" | "get" | "velocity" | "render" | "terminate" | "stopped"
    term_i,            \* index of the for loop over workers in the handler
    sent,              \* history: worker -> reports it has put, in order
    folded,            \* history: reports main has folded, in order
    sent_after_stop,   \* history: worker -> reports put while stop_event was set
    speed_sum,         \* history: sum of the speed values computed at boundaries
    p_num,             \* stand-alone is_prime check: the input
    p_done,            \* stand-alone is_prime check: is_prime has returned
    p_result,          \* stand-alone is_prime check: the value returned
    run                \* stand-alone sequence check: worker -> steps since its last leap

vars == <<CORE_COUNT, current_num, count, max_found, wpc, queue, stop_event, stats,
          last_total_primes, mpc, term_i, sent, folded, sent_after_stop,
          speed_sum, p_num, p_done, p_result, run>>

workerVars == <<current_num, count, max_found, wpc>>
mainVars == <<stats, last_total_primes, mpc, term_i>>
histVars == <<sent, folded, sent_after_stop, speed_sum>>
auxVars == <<p_num, p_done, p_result, run>>

Workers == 0 .. (CORE_COUNT - 1)

\* ------------------------------------------------------------- is_prime
\* math.isqrt(num): the largest r with r*r <= num
RECURSIVE isqrtFrom(_, _)
isqrtFrom(num, r) ==
    IF (r + 1) * (r + 1) > num THEN r ELSE isqrtFrom(num, r + 1)

isqrt(num) == isqrtFrom(num, 0)

\* a trial-division loop that stops one short of limit: range(3, limit, 2)
RECURSIVE TrialDivisionShort(_, _, _)
TrialDivisionShort(num, i, limit) ==
    IF i >= limit THEN TRUE
    ELSE IF num % i = 0 THEN FALSE
    ELSE TrialDivisionShort(num, i + 2, limit)

\* for i in range(3, limit + 1, 2): if num % i == 0: return False; return True
RECURSIVE TrialDivision(_, _, _)
TrialDivision(num, i, limit) ==
    IF i > limit THEN TRUE
    ELSE IF num % i = 0 THEN FALSE
    ELSE TrialDivision(num, i + 2, limit)

is_prime(num) ==
    IF num < 2 THEN FALSE
    ELSE IF num = 2 THEN TRUE
    ELSE IF num % 2 = 0 THEN FALSE
    ELSE TrialDivision(num, 3, isqrt(num))

\* --------------------------------------------------- candidate sequence
\* a start that forgets the worker id
StartNumShared(worker_id) == StartBase

\* current_num = 100 + worker_id
StartNum(worker_id) == StartBase + worker_id

\* math.floor(current_num * 0.00000005); for the non-negative cursors of the
\* program the float product floors to the integer quotient by 20,000,000
Growth(c) == c \div GrowthUnit

\* an advance that forgets the stride
AdvanceNoStride(c, stride) == c + Growth(c)

\* growth = floor(current_num * 0.00000005); current_num += (stride + growth)
Advance(c, stride) == c + (stride + Growth(c))

\* ------------------------------------------------------------ aggregation
\* a fold that overwrites highest without comparing
FoldOverwrite(s, data) ==
    [s EXCEPT !.total = s.total + data.count, !.highest = data.highest]

\* a fold that forgets to add the count
FoldNoCount(s, data) ==
    [s EXCEPT !.highest = IF data.highest > s.highest THEN data.highest ELSE s.highest]

\* stats['total'] += data['count'];
\* if data['highest'] > stats['highest']: stats['highest'] = data['highest']
Fold(s, data) ==
    [s EXCEPT !.total = s.total + data.count,
              !.highest = IF data.highest > s.highest THEN data.highest ELSE s.highest]

\* ------------------------------------------------------------------ Init
InitStats(n) ==
    [total |-> 0, speed |-> 0, highest |-> 0, threads |-> n, running |-> TRUE]

AuxIdle ==
    /\ p_num = 0
    /\ p_done = FALSE
    /\ p_result = FALSE
    /\ run = [w \in Workers |-> 0]

PoolInit ==
    /\ CORE_COUNT \in 1 .. MaxCores
    /\ current_num = [w \in Workers |-> StartNum(w)]
    /\ count = [w \in Workers |-> 0]
    /\ max_found = [w \in Workers |-> 0]
    /\ wpc = [w \in Workers |-> "loop"]
    /\ queue = << >>
    /\ stop_event = FALSE
    /\ stats = InitStats(CORE_COUNT)
    /\ last_total_primes = 0
    /\ mpc = "drain"
    /\ term_i = 0
    /\ sent = [w \in Workers |-> << >>]
    /\ folded = << >>
    /\ sent_after_stop = [w \in Workers |-> 0]
    /\ speed_sum = 0

Init == PoolInit /\ AuxIdle

\* ------------------------------------------------------- worker_process
\* a loop test that never sees the flag
StopSeenNever == FALSE

\* stop_event.is_set()
StopSeen == stop_event

\* a slice that starts with the previous slice's count
FreshCountKeep(old) == old

\* count = 0
FreshCount(old) == 0

\* a slice that starts with the previous slice's max_found
FreshMaxKeep(old) == old

\* max_found = 0
FreshMax(old) == 0

\* while not stop_event.is_set(): count = 0; max_found = 0; start_time = now
LoopCheck(w) ==
    /\ wpc[w] = "loop"
    /\ IF StopSeen
       THEN /\ wpc' = [wpc EXCEPT ![w] = "exited"]
            /\ UNCHANGED <<count, max_found>>
       ELSE /\ wpc' = [wpc EXCEPT ![w] = "slice"]
            /\ count' = [count EXCEPT ![w] = FreshCount(@)]
            /\ max_found' = [max_found EXCEPT ![w] = FreshMax(@)]
    /\ UNCHANGED <<CORE_COUNT, current_num, queue, stop_event, mainVars, histVars, auxVars>>

\* a count that only flags that a prime was found
NextCountFlag(cnt, n) == IF is_prime(n) THEN 1 ELSE cnt

\* if is_prime(current_num): count += 1
NextCount(cnt, n) == IF is_prime(n) THEN cnt + 1 ELSE cnt

\* a max_found that keeps the first prime of the slice
NextMaxFirst(mx, n) == IF is_prime(n) /\ mx = 0 THEN n ELSE mx

\* a max_found that records every candidate
NextMaxAny(mx, n) == n

\* if is_prime(current_num): max_found = current_num
NextMax(mx, n) == IF is_prime(n) THEN n ELSE mx

\* one pass of the inner loop while (time.time() - start_time) < 0.2 holds
SliceTest(w) ==
    /\ wpc[w] = "slice"
    /\ current_num[w] <= StartBase + MaxSpan
    /\ count' = [count EXCEPT ![w] = NextCount(@, current_num[w])]
    /\ max_found' = [max_found EXCEPT ![w] = NextMax(@, current_num[w])]
    /\ current_num' = [current_num EXCEPT ![w] = Advance(current_num[w], CORE_COUNT)]
    /\ UNCHANGED <<CORE_COUNT, wpc, queue, stop_event, mainVars, histVars, auxVars>>

\* a report sent at every slice end
ShouldReportAlways(w) == TRUE

\* if count > 0 or max_found > 0
ShouldReport(w) == count[w] > 0 \/ max_found[w] > 0

Report(w) == [id |-> w, count |-> count[w], highest |-> max_found[w]]

\* a put that jumps the line
PutFront(q, item) == <<item>> \o q

\* queue.put(item)
Put(q, item) == Append(q, item)

\* a get that leaves the item in the queue
RestKeep(q) == q

\* queue.get() removes the oldest item
Rest(q) == Tail(q)

\* the 0.2 s have elapsed: leave the inner loop, report the slice, back to the
\* outer loop's test
SliceEnd(w) ==
    /\ wpc[w] = "slice"
    /\ wpc' = [wpc EXCEPT ![w] = "loop"]
    /\ IF ShouldReport(w)
       THEN /\ queue' = Put(queue, Report(w))
            /\ sent' = [sent EXCEPT ![w] = Append(sent[w], Report(w))]
            /\ sent_after_stop' = [sent_after_stop EXCEPT
                                     ![w] = IF stop_event THEN @ + 1 ELSE @]
       ELSE UNCHANGED <<queue, sent, sent_after_stop>>
    /\ UNCHANGED <<CORE_COUNT, current_num, count, max_found, stop_event, mainVars,
                   folded, speed_sum, auxVars>>

\* ------------------------------------------------------------------ main
Running == mpc \in {"drain", "get", "velocity", "render"}

\* an emptiness test with the sense inverted
QueueEmptyNegated(q) == q # << >>

\* queue.empty()
QueueEmpty(q) == q = << >>

\* while not queue.empty()
DrainCheck ==
    /\ mpc = "drain"
    /\ mpc' = IF ~QueueEmpty(queue) THEN "get" ELSE "velocity"
    /\ UNCHANGED <<CORE_COUNT, workerVars, queue, stop_event, stats, last_total_primes,
                   term_i, histVars, auxVars>>

\* data = queue.get(); fold it into stats
GetAndFold ==
    /\ mpc = "get"
    /\ queue # << >>
    /\ stats' = Fold(stats, Head(queue))
    /\ folded' = Append(folded, Head(queue))
    /\ queue' = Rest(queue)
    /\ mpc' = "drain"
    /\ UNCHANGED <<CORE_COUNT, workerVars, stop_event, last_total_primes, term_i,
                   sent, sent_after_stop, speed_sum, auxVars>>

\* a speed that forgets the baseline
NewSpeedAbsolute(total, baseline) == total

\* stats['total'] - last_total_primes
NewSpeed(total, baseline) == total - baseline

\* now = time.time(); if now - last_check_time >= 1.0: ...
Velocity ==
    /\ mpc = "velocity"
    /\ \E boundary \in BOOLEAN :
         IF boundary
         THEN /\ stats' = [stats EXCEPT !.speed = NewSpeed(stats.total, last_total_primes)]
              /\ last_total_primes' = stats.total
              /\ speed_sum' = speed_sum + stats'.speed
         ELSE UNCHANGED <<stats, last_total_primes, speed_sum>>
    /\ mpc' = "render"
    /\ UNCHANGED <<CORE_COUNT, workerVars, queue, stop_event, term_i, sent, folded,
                   sent_after_stop, auxVars>>

\* live.update(generate_layout(stats)); time.sleep(0.1)
Render ==
    /\ mpc = "render"
    /\ mpc' = "drain"
    /\ UNCHANGED <<CORE_COUNT, workerVars, queue, stop_event, stats, last_total_primes,
                   term_i, histVars, auxVars>>

\* except KeyboardInterrupt: stop_event.set()
Interrupt ==
    /\ Running
    /\ stop_event' = TRUE
    /\ mpc' = "terminate"
    /\ term_i' = 0
    /\ UNCHANGED <<CORE_COUNT, workerVars, queue, stats, last_total_primes, histVars, auxVars>>

\* a terminate that leaves the process running
KilledNot(pc) == pc

\* p.terminate(): a process that has not returned yet is killed
Killed(pc) == IF pc = "exited" THEN pc ELSE "terminated"

\* for p in workers: p.terminate()
Terminate ==
    /\ mpc = "terminate"
    /\ term_i < CORE_COUNT
    /\ wpc' = [wpc EXCEPT ![term_i] = Killed(@)]
    /\ term_i' = term_i + 1
    /\ UNCHANGED <<CORE_COUNT, current_num, count, max_found, queue, stop_event, stats,
                   last_total_primes, mpc, histVars, auxVars>>

\* a handler inside the while loop: the loop resumes after it
AfterHandlerLoop == "drain"

\* the except clause encloses the while loop: main returns after the handler
AfterHandler == "stopped"

\* print("\nNode Stopped.")
Stopped ==
    /\ mpc = "terminate"
    /\ term_i = CORE_COUNT
    /\ mpc' = AfterHandler
    /\ UNCHANGED <<CORE_COUNT, workerVars, queue, stop_event, stats, last_total_primes,
                   term_i, histVars, auxVars>>

WorkerNext == \E w \in Workers : LoopCheck(w) \/ SliceTest(w) \/ SliceEnd(w)

MainNext == DrainCheck \/ GetAndFold \/ Velocity \/ Render

ShutdownNext == Interrupt \/ Terminate \/ Stopped

Next == WorkerNext \/ MainNext \/ ShutdownNext

Spec == Init /\ [][Next]_vars

\* The main process is never suspended for good: its loop and, once the
\* interrupt has arrived, its handler keep taking steps.
LiveSpec == Spec /\ WF_vars(MainNext) /\ WF_vars(Terminate \/ Stopped)

\* ------------------------------------------- stand-alone check of is_prime
\* is_prime applied to one input drawn from -NegInputs .. MaxInput
PrimeInit ==
    /\ PoolInit
    /\ p_num \in (0 - NegInputs) .. MaxInput
    /\ p_done = FALSE
    /\ p_result = FALSE
    /\ run = [w \in Workers |-> 0]

PrimeApply ==
    /\ ~p_done
    /\ p_done' = TRUE
    /\ p_result' = is_prime(p_num)
    /\ UNCHANGED <<CORE_COUNT, workerVars, queue, stop_event, mainVars, histVars, p_num, run>>

PrimeNext == PrimeApply

PrimeSpec == PrimeInit /\ [][PrimeNext]_vars

\* reference definition: n >= 2 and no d with 2 <= d < n divides n
RefPrime(n) == n >= 2 /\ \A d \in 2 .. (n - 1) : n % d # 0

\* C1: for every input n in -NegInputs .. MaxInput, is_prime(n) is true exactly
\* when n is prime by the reference definition; it is false for every n < 2 and
\* for 0, 1, 4, 9, 100 and true for 2, 3, 97.
C1_IsPrimeMatchesReference ==
    p_done =>
        /\ p_result = RefPrime(p_num)
        /\ p_num < 2 => p_result = FALSE
        /\ p_num \in {0, 1, 4, 9, 100} => p_result = FALSE
        /\ p_num \in {2, 3, 97} => p_result = TRUE

C1_Witness == p_done /\ p_num = 97 /\ p_result = TRUE

\* ------------------------------- stand-alone check of the candidate sequence
\* Only the cursors move: each step is one execution of lines 47-48.
SeqInit == PoolInit /\ AuxIdle

SeqStep(w) ==
    /\ run[w] < MaxRun
    /\ Growth(current_num[w]) <= MaxGrowth
    /\ current_num' = [current_num EXCEPT ![w] = Advance(current_num[w], CORE_COUNT)]
    /\ run' = [run EXCEPT ![w] = run[w] + 1]
    /\ UNCHANGED <<CORE_COUNT, count, max_found, wpc, queue, stop_event, mainVars,
                   histVars, p_num, p_done, p_result>>

\* the number of further advances after which the cursor is the last candidate
\* whose growth equals Growth(c)
LeapLength(c, stride) ==
    (((Growth(c) + 1) * GrowthUnit - 1) - c) \div (stride + Growth(c))

\* LeapLength consecutive executions of lines 47-48: the growth is the same in
\* each of them, so together they add LeapLength * (stride + growth)
SeqLeap(w) ==
    /\ Growth(current_num[w]) <= MaxGrowth
    /\ LeapLength(current_num[w], CORE_COUNT) >= 1
    /\ current_num' = [current_num EXCEPT ![w] =
           current_num[w] + LeapLength(current_num[w], CORE_COUNT)
                            * (CORE_COUNT + Growth(current_num[w]))]
    /\ run' = [run EXCEPT ![w] = 0]
    /\ UNCHANGED <<CORE_COUNT, count, max_found, wpc, queue, stop_event, mainVars,
                   histVars, p_num, p_done, p_result>>

SeqNext == \E w \in Workers : SeqStep(w) \/ SeqLeap(w)

SeqSpec == SeqInit /\ [][SeqNext]_vars

\* C2: two distinct workers never test the same integer. Cursors advance
\* independently, so a shared candidate shows as a state with equal cursors;
\* two cursors with the same growth g both move in steps of CORE_COUNT + g, so
\* they meet somewhere in that stretch exactly when they agree modulo that step.
C2_NoCollision ==
    \A i \in Workers : \A j \in Workers :
        i # j =>
            /\ current_num[i] # current_num[j]
            /\ Growth(current_num[i]) = Growth(current_num[j]) =>
                 (current_num[i] - current_num[j])
                     % (CORE_COUNT + Growth(current_num[i])) # 0

C2_Witness ==
    /\ CORE_COUNT >= 2
    /\ \A w \in Workers : Growth(current_num[w]) = 2
    /\ \E w \in Workers : run[w] > 0

\* ------------------------------------------------- claims on the aggregator
RECURSIVE SumCount(_)
SumCount(seq) == IF seq = << >> THEN 0 ELSE Head(seq).count + SumCount(Tail(seq))

RECURSIVE MaxHighest(_)
MaxHighest(seq) ==
    IF seq = << >> THEN 0
    ELSE LET m == MaxHighest(Tail(seq))
         IN  IF Head(seq).highest > m THEN Head(seq).highest ELSE m

RECURSIVE FoldAll(_, _)
FoldAll(s, seq) == IF seq = << >> THEN s ELSE FoldAll(Fold(s, Head(seq)), Tail(seq))

From(seq, w) == SelectSeq(seq, LAMBDA r : r.id = w)

IsPrefix(a, b) == Len(a) <= Len(b) /\ a = SubSeq(b, 1, Len(a))

HasStopped(w) == wpc[w] \in {"exited", "terminated"}

\* C3: stats['total'] never decreases from one state to the next, and in every
\* state it is the sum of the count fields of the reports folded so far.
C3_TotalIsSumOfFolded ==
    /\ [](stats.total = SumCount(folded))
    /\ [][stats'.total >= stats.total]_vars

C3_Witness == Len(folded) >= 2 /\ stats.total >= 3

\* C4: stats['highest'] never decreases, and in every state it is the largest
\* highest field among the reports folded so far (0 if none), whatever the order
\* in which the workers' reports were folded.
C4_HighestIsMaxOfFolded ==
    /\ [](stats.highest = MaxHighest(folded))
    /\ [][stats'.highest >= stats.highest]_vars

\* a report folded after one with a larger highest, from another worker
C4_Witness ==
    \E i \in DOMAIN folded : \E j \in DOMAIN folded :
        /\ i < j
        /\ folded[i].id # folded[j].id
        /\ folded[i].highest > folded[j].highest

\* C5: from the current stats, folding the reports now in the channel in any
\* order gives the same total and the same highest as folding them in channel
\* order.
C5_FoldCommutes ==
    \A p \in Permutations(DOMAIN queue) :
        LET shuffled == [i \in DOMAIN queue |-> queue[p[i]]]
        IN  /\ FoldAll(stats, shuffled).total = FoldAll(stats, queue).total
            /\ FoldAll(stats, shuffled).highest = FoldAll(stats, queue).highest

C5_Witness ==
    /\ Len(queue) >= 2
    /\ stats.highest > 0
    /\ \E i \in DOMAIN queue : \E j \in DOMAIN queue :
         queue[i].id # queue[j].id /\ queue[i].highest # queue[j].highest

\* C6: a worker leaving a slice appends exactly one report when its count is
\* nonzero and leaves the channel alone otherwise; every report in the channel
\* has count >= 1, so none has count = 0 and highest = 0.
C6_ReportIffCountNonzero ==
    /\ [](\A i \in DOMAIN queue :
            queue[i].count >= 1 /\ ~(queue[i].count = 0 /\ queue[i].highest = 0))
    /\ [][\A w \in Workers :
            (wpc[w] = "slice" /\ wpc'[w] = "loop") =>
                queue' = IF count[w] # 0
                         THEN Append(queue, [id |-> w, count |-> count[w],
                                             highest |-> max_found[w]])
                         ELSE queue]_vars

\* one worker ended a slice in which it tested candidates and sent nothing,
\* another has a report in the channel
C6_Witness ==
    /\ \E w \in Workers :
         wpc[w] = "loop" /\ current_num[w] > StartNum(w) /\ sent[w] = << >>
    /\ queue # << >>

C8_FifoPerProducer ==
    \A w \in Workers : IsPrefix(From(folded, w), sent[w])

C8_Witness ==
    /\ \E w \in Workers : Len(From(folded, w)) >= 2
    /\ \E i \in DOMAIN folded : \E j \in DOMAIN folded : folded[i].id # folded[j].id

\* C9 as stated: no worker puts a report while stop_event is set.
C9_NoReportAfterStop ==
    \A w \in Workers : sent_after_stop[w] = 0

\* C9 amended: once stop_event is set a worker puts at most one more report,
\* the one of the slice it was in when the flag was raised; a worker that has
\* stopped puts none.
C9_AtMostOneReportAfterStop ==
    /\ [](\A w \in Workers : sent_after_stop[w] <= 1)
    /\ [][\A w \in Workers :
            (stop_event /\ sent'[w] # sent[w]) =>
                wpc[w] = "slice" /\ sent_after_stop[w] = 0]_vars
    /\ [][\A w \in Workers : HasStopped(w) => sent'[w] = sent[w]]_vars

C9_Witness == \E w \in Workers : sent_after_stop[w] = 1 /\ HasStopped(w)

\* C10: once stop_event is set every worker eventually has stopped, by leaving
\* its loop or by being terminated; a worker is terminated only while
\* stop_event is set.
C10_AllWorkersStop ==
    /\ stop_event ~> (\A w \in Workers : HasStopped(w))
    /\ [](\A w \in Workers : wpc[w] = "terminated" => stop_event)
    /\ [][\A w \in Workers : HasStopped(w) => wpc'[w] = wpc[w]]_vars

C10_Witness ==
    /\ mpc = "stopped"
    /\ \E w \in Workers : wpc[w] = "exited"
    /\ \E w \in Workers : wpc[w] = "terminated"

\* -------------------------------------------- claims on velocity, lifecycle
\* C11: stats['speed'] changes only in the 1-second boundary step of the
\* velocity check, which sets it to total minus the baseline and resets the
\* baseline to total; so the baseline never exceeds total, speed is never
\* negative, and the speeds computed so far add up to the baseline.
C11_SpeedOnlyAtBoundary ==
    /\ [](/\ last_total_primes <= stats.total
          /\ stats.speed >= 0
          /\ speed_sum = last_total_primes)
    /\ [][stats'.speed # stats.speed => mpc = "velocity"]_vars
    /\ [][last_total_primes' # last_total_primes =>
            /\ mpc = "velocity"
            /\ stats'.speed = stats.total - last_total_primes
            /\ last_total_primes' = stats.total]_vars

\* a second boundary with a nonzero speed after a first one
C11_Witness ==
    /\ stats.speed > 0
    /\ last_total_primes > stats.speed
    /\ stats.total > last_total_primes

\* C12: the program starts RUNNING with stop_event clear; stop_event is set
\* exactly while main is past the interrupt; once set it is never cleared and
\* main never runs its loop again: nothing is taken from the channel, nothing
\* is folded and no velocity is computed.
C12_StoppingIsTerminal ==
    /\ (Running /\ ~stop_event)
    /\ [](stop_event <=> ~Running)
    /\ [][stop_event => stop_event']_vars
    /\ [][~Running => ~Running']_vars
    /\ [][stop_event =>
            /\ stats' = stats
            /\ folded' = folded
            /\ last_total_primes' = last_total_primes
            /\ speed_sum' = speed_sum
            /\ IsPrefix(queue, queue')]_vars

C12_Witness ==
    /\ mpc = "stopped"
    /\ stats.total > 0
    /\ \E w \in Workers : sent_after_stop[w] > 0

\* C13: every single advance of a cursor adds the stride and
\* floor(current * 5 / 100000000) to it, and every change of a cursor makes it
\* larger; the next cursor is thus a function of current and stride alone.
C13_AdvanceStrictlyIncreasing ==
    /\ [](\A w \in Workers : current_num[w] >= StartBase)
    /\ [][\A w \in Workers :
            run'[w] = run[w] + 1 =>
                current_num'[w] =
                    current_num[w] + CORE_COUNT + ((current_num[w] * 5) \div 100000000)]_vars
    /\ [][\A w \in Workers :
            current_num'[w] # current_num[w] => current_num'[w] > current_num[w]]_vars

\* two single advances, the second with growth 1
C13_Witness ==
    \E w \in Workers :
        /\ run[w] = 2
        /\ Growth(current_num[w]) = 1
        /\ current_num[w] < GrowthUnit + 3 * (CORE_COUNT + 1)

\* the candidates a cursor visits from `from` up to, not including, `to`
RECURSIVE Candidates(_, _, _)
Candidates(from, to, stride) ==
    IF from >= to THEN {}
    ELSE {from} \cup Candidates(Advance(from, stride), to, stride)

\* the candidates worker w has tested so far
TestedBy(w) == Candidates(StartNum(w), current_num[w], CORE_COUNT)

MaxOf(S) == IF S = {} THEN 0 ELSE CHOOSE m \in S : \A x \in S : x <= m

\* the reference primes up to the largest candidate a worker can test
RefPrimes == {n \in 0 .. (StartBase + MaxSpan + MaxCores) : RefPrime(n)}

PrimesIn(S) == S \cap RefPrimes

\* C14 as stated: with pool size 1, once the worker has ended a slice in which
\* it tested candidates, it has sent a report with a nonzero count.
C14_FirstSliceAlwaysReports ==
    (CORE_COUNT = 1 /\ wpc[0] = "loop" /\ current_num[0] > StartNum(0)) =>
        (sent[0] # << >> /\ sent[0][1].count >= 1)

\* C14 amended: with pool size 1, a slice that ends while the worker has not
\* reported yet (the first slice is one) has tested the consecutive integers
\* up to current_num - 1, all integers from 100 on being tested by then; it
\* sends one report whose count is the number of primes among 100 ..
\* current_num - 1 and whose highest is the largest of them if there is one
\* (the cursor got past 101), and sends nothing otherwise.
C14_FirstSliceReport ==
    [][(/\ CORE_COUNT = 1
        /\ wpc[0] = "slice"
        /\ wpc'[0] = "loop"
        /\ sent[0] = << >>) =>
            LET P == PrimesIn(StartNum(0) .. (current_num[0] - 1))
            IN  /\ TestedBy(0) = StartNum(0) .. (current_num[0] - 1)
                /\ sent'[0] = IF P # {}
                              THEN << [id |-> 0, count |-> Cardinality(P),
                                       highest |-> MaxOf(P)] >>
                              ELSE << >>
                /\ queue' = queue \o sent'[0]]_vars

C14_Witness ==
    /\ CORE_COUNT = 1
    /\ sent[0] = << [id |-> 0, count |-> 3, highest |-> 107] >>

\* C15: a step that moves a cursor, changes a local slice counter or adds to
\* the channel leaves stats and the velocity baseline unchanged, changes the
\* cursor and counters of one worker only and only appends to the channel; a
\* step that changes stats or the baseline or takes from the channel leaves
\* every cursor and local counter unchanged and only removes the oldest report.
C15_SingleOwner ==
    /\ [][(\/ current_num' # current_num
           \/ count' # count
           \/ max_found' # max_found
           \/ Len(queue') > Len(queue)) =>
            /\ stats' = stats
            /\ last_total_primes' = last_total_primes
            /\ IsPrefix(queue, queue')
            /\ \E w \in Workers : \A v \in Workers \ {w} :
                 /\ current_num'[v] = current_num[v]
                 /\ count'[v] = count[v]
                 /\ max_found'[v] = max_found[v]]_vars
    /\ [][(\/ stats' # stats
           \/ last_total_primes' # last_total_primes
           \/ Len(queue') < Len(queue)) =>
            /\ current_num' = current_num
            /\ count' = count
            /\ max_found' = max_found
            /\ (queue' = queue \/ (queue # << >> /\ queue' = Tail(queue)))]_vars

C15_Witness ==
    /\ Len(folded) >= 1
    /\ Len(queue) >= 1
    /\ stats.speed > 0
    /\ \E w \in Workers : wpc[w] = "slice" /\ count[w] > 0

\* ------------------------------------------------ claims on slice reports
RECURSIVE SumOver(_, _)
SumOver(f, S) ==
    IF S = {} THEN 0
    ELSE LET x == CHOOSE y \in S : TRUE IN f[x] + SumOver(f, S \ {x})

StrictlyIncreasing(seq) ==
    \A i \in DOMAIN seq : \A j \in DOMAIN seq : i < j => seq[i].highest < seq[j].highest

\* the highest of the report before the i-th of a sequence of reports, 0 for
\* the first
Before(seq, i) == IF i = 1 THEN 0 ELSE seq[i - 1].highest

LastHighest(seq) == IF seq = << >> THEN 0 ELSE seq[Len(seq)].highest

\* the members of P above lo, up to hi
Between(P, lo, hi) == {q \in P : lo < q /\ q <= hi}

\* C16: the primes a worker tests in a slice are those it tested after the
\* highest of its previous report. Every report's highest is a prime the
\* worker tested and its count is the number of primes the worker tested after
\* the previous report's highest up to that prime, so the reports count
\* disjoint sets of primes; during a slice count and max_found are the number
\* and the largest (0 if none) of the primes tested since the last report; and
\* both are 0 when a slice starts.
C16_ReportDescribesSlice ==
    /\ [](\A w \in Workers :
            LET P == PrimesIn(TestedBy(w))
                S == Between(P, LastHighest(sent[w]), current_num[w])
            IN  /\ \A i \in DOMAIN sent[w] :
                     /\ sent[w][i].id = w
                     /\ sent[w][i].highest \in P
                     /\ sent[w][i].highest > Before(sent[w], i)
                     /\ sent[w][i].count =
                          Cardinality(Between(P, Before(sent[w], i), sent[w][i].highest))
                /\ wpc[w] = "slice" =>
                     (count[w] = Cardinality(S) /\ max_found[w] = MaxOf(S)))
    /\ [][\A w \in Workers :
            (wpc[w] = "slice" /\ wpc'[w] = "loop" /\ sent'[w] # sent[w]) =>
                sent'[w] = Append(sent[w], [id |-> w, count |-> count[w],
                                            highest |-> max_found[w]])]_vars
    /\ [][\A w \in Workers :
            (wpc[w] = "loop" /\ wpc'[w] = "slice") =>
                count'[w] = 0 /\ max_found'[w] = 0]_vars

\* a third slice with a prime after two reports
C16_Witness ==
    \E w \in Workers :
        /\ Len(sent[w]) >= 2
        /\ wpc[w] = "slice"
        /\ count[w] >= 1

\* C17: main is at queue.get() only with a non-empty channel, and the get
\* removes one report; when the emptiness test finds the channel empty main
\* goes on to the velocity check without touching the channel or stats.
C17_DrainNeverBlocks ==
    /\ [](mpc = "get" => queue # << >>)
    /\ [][(mpc = "get" /\ mpc' = "drain") => Len(queue') = Len(queue) - 1]_vars
    /\ [][(mpc = "drain" /\ queue = << >> /\ mpc' # "drain") =>
            /\ mpc' \in {"velocity", "terminate"}
            /\ queue' = queue
            /\ stats' = stats]_vars

\* a worker has put a second report between the emptiness test and the get
C17_Witness == mpc = "get" /\ Len(queue) >= 2

\* C18: before shutdown, total plus the counts of the reports in the channel
\* plus the counts of the slices in progress is the number of primes among all
\* candidates tested so far by all workers.
C18_Conservation ==
    ~stop_event =>
        stats.total + SumCount(queue)
            + SumOver([w \in Workers |-> IF wpc[w] = "slice" THEN count[w] ELSE 0], Workers)
          = SumOver([w \in Workers |-> Cardinality(PrimesIn(TestedBy(w)))], Workers)

C18_Witness ==
    /\ ~stop_event
    /\ stats.total >= 1
    /\ queue # << >>
    /\ \E w \in Workers : wpc[w] = "slice" /\ count[w] >= 1 /\ sent[w] # << >>

\* C19: the highest fields of the reports a worker has put are strictly
\* increasing, and so are those of its reports in the order main folded them.
C19_HighestStrictlyIncreasing ==
    \A w \in Workers :
        /\ StrictlyIncreasing(sent[w])
        /\ StrictlyIncreasing(From(folded, w))

C19_Witness ==
    \E w \in Workers : \E v \in Workers :
        /\ w # v
        /\ Len(From(folded, w)) >= 2
        /\ Len(sent[v]) >= 1

====
